---- MODULE Spec2Model ----
(***************************************************************************)
(* Model of pkg/resolvers/k8s/watcher.go: the endpoints watcher that turns *)
(* kubernetes endpoint watch events into naming.Update batches.            *)
(*                                                                         *)
(* One consumer goroutine calls Next() sequentially, Close() may be called *)
(* from another goroutine at any time, and the event source goroutine      *)
(* sends watchResult values on the unbuffered channel watchChange.         *)
(***************************************************************************)
EXTENDS Bags, FiniteSets, Integers, Sequences, TLC

(***************************************************************************)
(* Bounds of the inputs.                                                   *)
(***************************************************************************)
MaxSubsets == 2    \* subsets per event

IPs == {"10.0.0.1", "::1"}

SeqsUpTo(S, n) == UNION {[1..k -> S] : k \in 0..n}

\* type address struct { IP string }
address == [IP : IPs]

\* type port struct { Name string; Port int }
port == [Name : {"http", "grpc"}, Port : {80, 8080, 9090}]

\* the address lists of the subsets the event source sends
AddressLists ==
    {<<[IP |-> "10.0.0.1"]>>,
     <<[IP |-> "::1"]>>,
     <<[IP |-> "10.0.0.1"], [IP |-> "::1"]>>}

\* the port lists of the subsets the event source sends
PortLists ==
    {<<>>,
     <<[Name |-> "http", Port |-> 80]>>,
     <<[Name |-> "grpc", Port |-> 9090], [Name |-> "grpc", Port |-> 8080]>>}

\* type subset struct { Addresses []address; Ports []port }
subset == [Addresses : AddressLists, Ports : PortLists]

\* type endpoints struct { ...; Subsets []subset }, wrapped in event.Object
event == [Object : [Subsets : SeqsUpTo(subset, MaxSubsets)]]

\* targetEntry.port: isNamed tells a port name from a port number literal
noTargetPort == [isNamed |-> FALSE, value |-> ""]
TargetPorts == {noTargetPort,
                [isNamed |-> TRUE, value |-> "grpc"],
                [isNamed |-> FALSE, value |-> "80"]}

\* error values, by kind
NilErr == "nil"
ErrAlreadyStopped == "already stopped"   \* wraps ctx.Err()
ErrCanceled == "context canceled"        \* ctx.Err()
ErrEventStream == "error on reading event stream"
ErrNoPort == "subset contains no port"
StreamCause == "stream broken"
StreamCauses == {StreamCause, "unauthorized"}

\* errors.Wrap: the message, then the message of the cause
Wrap_noCause(cause, msg) == msg

Wrap(cause, msg) == msg \o ": " \o cause

\* type watchResult struct { ep *event; err error }
\* a nil *event, read as the zero event
NoEvent == [Object |-> [Subsets |-> <<>>]]
watchResult == [ep : event, err : {NilErr}] \cup [ep : {NoEvent}, err : StreamCauses]
NoResult == [ep |-> NoEvent, err |-> "none"]

\* what Next() returned; NoRet while no call has returned yet or one is running
NoRet == [updates |-> EmptyBag, err |-> "none"]

(***************************************************************************)
(* Pure helpers.                                                           *)
(***************************************************************************)
Digit == <<"0", "1", "2", "3", "4", "5", "6", "7", "8", "9">>

\* strconv.Itoa
RECURSIVE Itoa(_)
Itoa(n) ==
    IF n < 0 THEN "-" \o Itoa(0 - n)
    ELSE IF n < 10 THEN Digit[n + 1]
    ELSE Itoa(n \div 10) \o Digit[(n % 10) + 1]

\* hosts that contain a colon (literal IPv6 addresses)
ContainsColon(host) == host \in {"::1"}

\* net.JoinHostPort
JoinHostPort(host, p) ==
    IF ContainsColon(host) THEN "[" \o host \o "]:" \o p ELSE host \o ":" \o p

\* the named branch without its break: the last entry whose name matches
RECURSIVE NamedPort_lastMatch(_, _, _)
NamedPort_lastMatch(ports, name, i) ==
    IF i > Len(ports) THEN ""
    ELSE LET rest == NamedPort_lastMatch(ports, name, i + 1)
         IN IF rest # "" THEN rest
            ELSE IF ports[i].Name = name THEN Itoa(ports[i].Port)
            ELSE ""

\* the named branch of subsetToAddresses: first entry whose name matches,
\* the zero value "" when the loop ends without a match
RECURSIVE NamedPort(_, _, _)
NamedPort(ports, name, i) ==
    IF i > Len(ports) THEN ""
    ELSE IF ports[i].Name = name THEN Itoa(ports[i].Port)
    ELSE NamedPort(ports, name, i + 1)

\* the port selection taking a port number literal for no port at all
SelectPort_numericAsUnset(t, sub) ==
    IF ~t.isNamed THEN Itoa(sub.Ports[1].Port)
    ELSE NamedPort(sub.Ports, t.value, 1)

\* the port selection reading the last port entry where it wants the first
SelectPort_lastPort(t, sub) ==
    IF t = noTargetPort THEN Itoa(sub.Ports[Len(sub.Ports)].Port)
    ELSE IF t.isNamed THEN NamedPort(sub.Ports, t.value, 1)
    ELSE t.value

\* the port selection of subsetToAddresses (sub.Ports is not empty)
SelectPort(t, sub) ==
    IF t = noTargetPort THEN Itoa(sub.Ports[1].Port)
    ELSE IF t.isNamed THEN NamedPort(sub.Ports, t.value, 1)
    ELSE t.value

\* subsetToAddresses asking for ports only where it reads the port list
subsetToAddresses_lazyPortCheck(t, sub) ==
    IF Len(sub.Ports) = 0 /\ t = noTargetPort
    THEN [addrs |-> <<>>, err |-> ErrNoPort]
    ELSE [addrs |-> [i \in 1..Len(sub.Addresses) |->
                        JoinHostPort(sub.Addresses[i].IP, SelectPort(t, sub))],
          err |-> NilErr]

\* func subsetToAddresses(t targetEntry, sub subset) ([]string, error)
subsetToAddresses(t, sub) ==
    IF Len(sub.Ports) = 0
    THEN [addrs |-> <<>>, err |-> ErrNoPort]
    ELSE [addrs |-> [i \in 1..Len(sub.Addresses) |->
                        JoinHostPort(sub.Addresses[i].IP, SelectPort(t, sub))],
          err |-> NilErr]

Range(s) == {s[i] : i \in 1..Len(s)}

\* the first loop of next(): subsets i..Len resolved into the key set of
\* the map updatedEndpoints, stopping at the first subset that fails
RECURSIVE collectEndpoints(_, _, _, _)
collectEndpoints(t, subsets, i, acc) ==
    IF i > Len(subsets) THEN [set |-> acc, err |-> NilErr]
    ELSE LET res == subsetToAddresses(t, subsets[i])
         IN IF res.err # NilErr
            THEN [set |-> acc, err |-> res.err]
            ELSE collectEndpoints(t, subsets, i + 1, acc \cup Range(res.addrs))

\* the second loop without its lookup in lastUpdates
addUpdates_noLookup(updatedEndpoints, last) ==
    SetToBag({[Op |-> "Add", Addr |-> a, Metadata |-> "struct{}"] :
                a \in updatedEndpoints})

\* the second loop of next(): one Add per key of updatedEndpoints that is
\* not a key of lastUpdates
addUpdates(updatedEndpoints, last) ==
    SetToBag({[Op |-> "Add", Addr |-> a, Metadata |-> "struct{}"] :
                a \in {x \in updatedEndpoints : x \notin last}})

\* the third loop without its lookup in updatedEndpoints
deleteUpdates_noLookup(updatedEndpoints, last) ==
    SetToBag({[Op |-> "Delete", Addr |-> a, Metadata |-> "nil"] : a \in last})

\* the third loop as a copy of the second: ranging over updatedEndpoints and
\* looking up lastUpdates
deleteUpdates_copiedLoop(updatedEndpoints, last) ==
    SetToBag({[Op |-> "Delete", Addr |-> a, Metadata |-> "nil"] :
                a \in {x \in updatedEndpoints : x \notin last}})

\* the third loop of next(): one Delete per key of lastUpdates that is not
\* a key of updatedEndpoints
deleteUpdates(updatedEndpoints, last) ==
    SetToBag({[Op |-> "Delete", Addr |-> a, Metadata |-> "nil"] :
                a \in {x \in last : x \notin updatedEndpoints}})

\* the address set of an event all of whose subsets have ports: the union
\* over its subsets of the subset's addresses joined with the subset's port
ResolvedSet(t, e) ==
    UNION {{JoinHostPort(sub.Addresses[i].IP, SelectPort(t, sub)) :
                i \in 1..Len(sub.Addresses)} : sub \in Range(e.Object.Subsets)}

\* the consumer applies a batch: insert on Add, delete on Delete
Apply(set, updates) ==
    (set \cup {u.Addr : u \in {v \in BagToSet(updates) : v.Op = "Add"}})
        \ {u.Addr : u \in {v \in BagToSet(updates) : v.Op = "Delete"}}

\* Next() without the test at its head
alreadyStopped_never(c) == FALSE

\* w.ctx.Err() != nil, the test at the head of Next()
alreadyStopped(c) == c

(***************************************************************************)
(* State.                                                                  *)
(***************************************************************************)
VARIABLES
    target,        \* w.target.port
    cancelled,     \* w.ctx is done (w.cancel has been called)
    lastUpdates,   \* key set of the map w.lastUpdates
    offer,         \* what the event source is blocked sending on watchChange
    pc,            \* where the consumer is inside Next()
    r,             \* the watchResult received by the running Next()
    err,           \* the error next() returned to Next()
    ret,           \* what the last Next() returned
    errSeen,       \* history: some Next() has returned a non-nil error
    prevErr,       \* history: the error of the call before the current one
    startCancelled,\* history: the context was done when the call started
    closedParked,  \* history: Close() found the current call blocked
    lastGood,      \* history: the address set of the last event a Next()
                   \* returned nil for
    held,          \* history: the set the consumer holds after applying
                   \* every returned batch
    subs,          \* the subsets given to subsetToAddresses
    resolved       \* what subsetToAddresses returned for them

vars == <<target, cancelled, lastUpdates, offer, pc, r, err, ret,
          errSeen, prevErr, startCancelled, closedParked, lastGood,
          held, subs, resolved>>

hist == <<errSeen, prevErr, startCancelled, closedParked, lastGood>>

\* startNewWatcher, when startWatchingEndpointsChanges succeeds
Init ==
    /\ target \in TargetPorts
    /\ cancelled = FALSE
    /\ lastUpdates = {}
    /\ offer = "none"
    /\ pc = "idle"
    /\ r = NoResult
    /\ err = NilErr
    /\ ret = NoRet
    /\ errSeen = FALSE
    /\ prevErr = "none"
    /\ startCancelled = FALSE
    /\ closedParked = FALSE
    /\ lastGood = {}
    /\ held = {}
    /\ subs = <<>>
    /\ resolved = <<>>

\* startNewWatcher has returned a watcher
Started == pc \notin {"new", "nowatcher"}

(***************************************************************************)
(* The event source: sends on the unbuffered channel watchChange.          *)
(***************************************************************************)
Items(kind) ==
    IF kind = "event" THEN [ep : event, err : {NilErr}]
    ELSE [ep : {NoEvent}, err : StreamCauses]

\* the sender blocks: no receiver is waiting in the select
SourceOffer ==
    /\ Started
    /\ offer = "none"
    /\ pc # "parked"
    /\ offer' \in {"event", "error"}
    /\ UNCHANGED <<subs, resolved, held, target, cancelled, lastUpdates, pc, r, err, ret, hist>>

\* the sender finds Next() blocked in the select and hands the value over
SourceDeliver ==
    /\ pc = "parked"
    /\ \E kind \in {"event", "error"} : r' \in Items(kind)
    /\ pc' = "received"
    /\ UNCHANGED <<subs, resolved, held, target, cancelled, lastUpdates, offer, err, ret, hist>>

(***************************************************************************)
(* Close()                                                                 *)
(***************************************************************************)
\* Close() that also drops the addresses the watcher knows
Close_dropsAddresses ==
    /\ Started
    /\ pc # "parked"
    /\ cancelled' = TRUE
    /\ lastUpdates' = {}
    /\ UNCHANGED <<subs, resolved, held, target, offer, pc, r, err, ret, hist>>

\* Close() while no Next() is blocked in the select
Close ==
    /\ Started
    /\ pc # "parked"
    /\ cancelled' = TRUE
    /\ UNCHANGED <<subs, resolved, held, target, lastUpdates, offer, pc, r, err, ret, hist>>

\* Close() with a select in next() that has no Done case: the blocked
\* Next() stays blocked on watchChange
CloseParked_noDoneCase ==
    /\ pc = "parked"
    /\ cancelled' = TRUE
    /\ closedParked' = TRUE
    /\ UNCHANGED <<subs, resolved, held, target, lastUpdates, offer, pc, r, err, ret,
                   errSeen, prevErr, startCancelled, lastGood>>

\* Close() while Next() is blocked in the select: closing ctx.Done() wakes
\* the select with the Done case, next() returns ctx.Err()
CloseParked ==
    /\ pc = "parked"
    /\ cancelled' = TRUE
    /\ pc' = "failed"
    /\ err' = ErrCanceled
    /\ closedParked' = TRUE
    /\ UNCHANGED <<subs, resolved, held, target, lastUpdates, offer, r, ret,
                   errSeen, prevErr, startCancelled, lastGood>>

(***************************************************************************)
(* Next()                                                                  *)
(***************************************************************************)
\* the consumer calls Next()
Call ==
    /\ pc = "idle"
    /\ pc' = "called"
    /\ ret' = NoRet
    /\ r' = NoResult
    /\ err' = NilErr
    /\ prevErr' = ret.err
    /\ startCancelled' = cancelled
    /\ closedParked' = FALSE
    /\ UNCHANGED <<subs, resolved, held, target, cancelled, lastUpdates, offer, errSeen, lastGood>>

\* Next(): the context is done, return the already-stopped error
NextStopped ==
    /\ pc = "called"
    /\ alreadyStopped(cancelled)
    /\ pc' = "idle"
    /\ ret' = [updates |-> EmptyBag, err |-> ErrAlreadyStopped]
    /\ errSeen' = TRUE
    /\ UNCHANGED <<subs, resolved, held, target, cancelled, lastUpdates, offer, r, err,
                   prevErr, startCancelled, closedParked, lastGood>>

\* Next(): the context is not done, enter next()
NextEnter ==
    /\ pc = "called"
    /\ ~alreadyStopped(cancelled)
    /\ pc' = "entered"
    /\ UNCHANGED <<subs, resolved, held, target, cancelled, lastUpdates, offer, r, err, ret, hist>>

\* select: the Done case is ready and is chosen
SelectDone ==
    /\ pc = "entered"
    /\ cancelled
    /\ pc' = "failed"
    /\ err' = ErrCanceled
    /\ UNCHANGED <<subs, resolved, held, target, cancelled, lastUpdates, offer, r, ret, hist>>

\* select: a sender is waiting on watchChange and that case is chosen
SelectRecv ==
    /\ pc = "entered"
    /\ offer # "none"
    /\ r' \in Items(offer)
    /\ offer' = "none"
    /\ pc' = "received"
    /\ UNCHANGED <<subs, resolved, held, target, cancelled, lastUpdates, err, ret, hist>>

\* select: no case is ready, the goroutine blocks
SelectPark ==
    /\ pc = "entered"
    /\ ~cancelled
    /\ offer = "none"
    /\ pc' = "parked"
    /\ UNCHANGED <<subs, resolved, held, target, cancelled, lastUpdates, offer, r, err, ret, hist>>

\* next(): the received watchResult carries an error
RecvError ==
    /\ pc = "received"
    /\ r.err # NilErr
    /\ pc' = "failed"
    /\ err' = Wrap(r.err, ErrEventStream)
    /\ UNCHANGED <<subs, resolved, held, target, cancelled, lastUpdates, offer, r, ret, hist>>

\* next() collecting into w.lastUpdates instead of a map of its own
ProcessError_partial ==
    /\ pc = "received"
    /\ r.err = NilErr
    /\ LET c == collectEndpoints(target, r.ep.Object.Subsets, 1, {})
       IN /\ c.err # NilErr
          /\ err' = ErrNoPort
          /\ lastUpdates' = c.set
    /\ pc' = "failed"
    /\ UNCHANGED <<subs, resolved, held, target, cancelled, offer, r, ret, hist>>

\* next(): a subset of the received event does not resolve
ProcessError ==
    /\ pc = "received"
    /\ r.err = NilErr
    /\ LET c == collectEndpoints(target, r.ep.Object.Subsets, 1, {})
       IN /\ c.err # NilErr
          /\ err' = ErrNoPort
    /\ pc' = "failed"
    /\ UNCHANGED <<subs, resolved, held, target, cancelled, lastUpdates, offer, r, ret, hist>>

\* next() without the assignment to w.lastUpdates
Process_noStore ==
    /\ pc = "received"
    /\ r.err = NilErr
    /\ LET c == collectEndpoints(target, r.ep.Object.Subsets, 1, {})
       IN /\ c.err = NilErr
          /\ ret' = [updates |-> addUpdates(c.set, lastUpdates)
                                    (+) deleteUpdates(c.set, lastUpdates),
                     err |-> NilErr]
    /\ pc' = "idle"
    /\ lastGood' = ResolvedSet(target, r.ep)
    /\ held' = Apply(held, ret'.updates)
    /\ UNCHANGED <<subs, resolved, target, cancelled, lastUpdates, offer, r, err,
                   errSeen, prevErr, startCancelled, closedParked>>

\* next(): the event resolves; diff against lastUpdates, store, return
Process ==
    /\ pc = "received"
    /\ r.err = NilErr
    /\ LET c == collectEndpoints(target, r.ep.Object.Subsets, 1, {})
       IN /\ c.err = NilErr
          /\ ret' = [updates |-> addUpdates(c.set, lastUpdates)
                                    (+) deleteUpdates(c.set, lastUpdates),
                     err |-> NilErr]
          /\ lastUpdates' = c.set
    /\ pc' = "idle"
    /\ lastGood' = ResolvedSet(target, r.ep)
    /\ held' = Apply(held, ret'.updates)
    /\ UNCHANGED <<subs, resolved, target, cancelled, offer, r, err,
                   errSeen, prevErr, startCancelled, closedParked>>

\* Next(): next() returned an error; w.Close(), return the error
NextFail ==
    /\ pc = "failed"
    /\ cancelled' = TRUE
    /\ ret' = [updates |-> EmptyBag, err |-> err]
    /\ pc' = "idle"
    /\ errSeen' = TRUE
    /\ UNCHANGED <<subs, resolved, held, target, lastUpdates, offer, r, err,
                   prevErr, startCancelled, closedParked, lastGood>>

\* the steps the consumer goroutine takes by itself once Next() is called
NextStep ==
    \/ NextStopped
    \/ NextEnter
    \/ SelectDone
    \/ SelectRecv
    \/ SelectPark
    \/ RecvError
    \/ ProcessError
    \/ Process
    \/ NextFail

Next ==
    \/ SourceOffer
    \/ SourceDeliver
    \/ Close
    \/ CloseParked
    \/ Call
    \/ NextStep

Spec == Init /\ [][Next]_vars

\* the consumer goroutine keeps running while it is inside Next()
FairSpec == Spec /\ WF_vars(NextStep)

(***************************************************************************)
(* Construction: startNewWatcher from its first line.                      *)
(***************************************************************************)
\* startNewWatcher has made the context and the watcher value and is about
\* to call startWatchingEndpointsChanges
CreateInit ==
    /\ target \in TargetPorts
    /\ cancelled = FALSE
    /\ lastUpdates = {}
    /\ offer = "none"
    /\ pc = "new"
    /\ r = NoResult
    /\ err = NilErr
    /\ ret = NoRet
    /\ errSeen = FALSE
    /\ prevErr = "none"
    /\ startCancelled = FALSE
    /\ closedParked = FALSE
    /\ lastGood = {}
    /\ held = {}
    /\ subs = <<>>
    /\ resolved = <<>>

\* startWatchingEndpointsChanges returns nil: the watcher is returned
StartOk ==
    /\ pc = "new"
    /\ pc' = "idle"
    /\ UNCHANGED <<subs, resolved, held, target, cancelled, lastUpdates, offer,
                   r, err, ret, hist>>

\* startWatchingEndpointsChanges returns an error: startNewWatcher returns
\* nil and the error, and nothing else
StartFail ==
    /\ pc = "new"
    /\ pc' = "nowatcher"
    /\ UNCHANGED <<subs, resolved, held, target, cancelled, lastUpdates, offer,
                   r, err, ret, hist>>

CreateNext ==
    \/ StartOk
    \/ StartFail
    \/ Next

CreateSpec == CreateInit /\ [][CreateNext]_vars

(***************************************************************************)
(* subsetToAddresses on its own, applied to two subsets.                   *)
(***************************************************************************)
MaxPorts == 2      \* port entries per subset

\* the port entries and port lists subsetToAddresses is given
ResolvePorts ==
    {[Name |-> "http", Port |-> 80],
     [Name |-> "grpc", Port |-> 9090],
     [Name |-> "grpc", Port |-> 8080]}

ResolveSubsets == [Addresses : AddressLists, Ports : SeqsUpTo(ResolvePorts, MaxPorts)]

ResolveInit ==
    /\ target \in TargetPorts
    /\ subs \in [1..2 -> ResolveSubsets]
    /\ resolved = <<>>
    /\ pc = "resolve"
    /\ cancelled = FALSE
    /\ lastUpdates = {}
    /\ offer = "none"
    /\ r = NoResult
    /\ err = NilErr
    /\ ret = NoRet
    /\ errSeen = FALSE
    /\ prevErr = "none"
    /\ startCancelled = FALSE
    /\ closedParked = FALSE
    /\ lastGood = {}
    /\ held = {}

\* subsetToAddresses(w.target, sub) for each of the two subsets
Resolve ==
    /\ pc = "resolve"
    /\ resolved' = [i \in 1..2 |-> subsetToAddresses(target, subs[i])]
    /\ pc' = "resolved"
    /\ UNCHANGED <<subs, held, target, cancelled, lastUpdates, offer,
                   r, err, ret, hist>>

ResolveNext == Resolve

ResolveSpec == ResolveInit /\ [][ResolveNext]_vars

TypeOK ==
    /\ target \in TargetPorts
    /\ cancelled \in BOOLEAN
    /\ offer \in {"none", "event", "error"}
    /\ pc \in {"new", "nowatcher", "resolve", "resolved",
              "idle", "called", "entered", "parked", "received", "failed"}
    /\ r \in watchResult \cup {NoResult}
    /\ \A sub \in subset :
           /\ \A i \in 1..Len(sub.Addresses) : sub.Addresses[i] \in address
           /\ \A i \in 1..Len(sub.Ports) : sub.Ports[i] \in port

(***************************************************************************)
(* Properties.                                                             *)
(***************************************************************************)
\* a step in which a Next() call returns
Returns == pc # "idle" /\ pc' = "idle"

\* the received watchResult is an event with a subset that has no port
HasNoPortSubset(res) ==
    /\ res.err = NilErr
    /\ \E i \in 1..Len(res.ep.Object.Subsets) : Len(res.ep.Object.Subsets[i].Ports) = 0

\* the received watchResult is an event all of whose subsets have ports
Resolvable(res) ==
    /\ res.err = NilErr
    /\ \A i \in 1..Len(res.ep.Object.Subsets) : Len(res.ep.Object.Subsets[i].Ports) > 0

\* the deltas of a batch, without their metadata
Deltas(b) == {[Op |-> u.Op, Addr |-> u.Addr] : u \in BagToSet(b)}

\* C1: once a Next() call has returned a non-nil error, every Next() call
\* that returns later returns the already-stopped error and no updates.
C1_TerminalMonotonicity ==
    [][(errSeen /\ Returns) =>
            (ret'.err = ErrAlreadyStopped /\ ret'.updates = EmptyBag)]_vars

\* a call after a failed call and a stopped call has returned already-stopped,
\* with an address set left over from an earlier success
C1_Witness ==
    /\ pc = "idle"
    /\ errSeen
    /\ prevErr = ErrAlreadyStopped
    /\ ret.err = ErrAlreadyStopped
    /\ lastUpdates # {}

\* C2: a Next() call that processes an event with address set N while the
\* last known set is L returns exactly one Add for each address of N \ L and
\* one Delete for each address of L \ N, and nothing else.
C2_DiffCorrectness ==
    [][(pc = "received" /\ pc' = "idle") =>
            LET N == ResolvedSet(target, r.ep)
                L == lastUpdates
            IN /\ ret'.err = NilErr
               /\ Deltas(ret'.updates) =
                      {[Op |-> "Add", Addr |-> x] : x \in N \ L}
                      \cup {[Op |-> "Delete", Addr |-> x] : x \in L \ N}
               /\ \A u \in BagToSet(ret'.updates) : CopiesIn(u, ret'.updates) = 1
               /\ Cardinality(BagToSet(ret'.updates)) =
                      Cardinality(N \ L) + Cardinality(L \ N)]_vars

\* a returned batch with an Add and a Delete while an address stayed
C2_Witness ==
    /\ pc = "idle"
    /\ ret.err = NilErr
    /\ \E u, v \in BagToSet(ret.updates) : u.Op = "Add" /\ v.Op = "Delete"
    /\ \E x \in lastUpdates : [Op |-> "Add", Addr |-> x] \notin Deltas(ret.updates)

\* C3: lastUpdates is the address set of the most recent event for which
\* Next() returned nil, and is empty when there has been none.
C3_LastUpdatesIsLastGood == lastUpdates = lastGood

\* a failed call after a successful one: the set of the successful one stays
C3_Witness ==
    /\ pc = "idle"
    /\ ret.err = ErrNoPort
    /\ prevErr = NilErr
    /\ lastUpdates # {}

\* a subset with ports none of which has the name the target asks for
NamedMiss(t, sub) ==
    /\ t.isNamed
    /\ Len(sub.Ports) > 0
    /\ \A i \in 1..Len(sub.Ports) : sub.Ports[i].Name # t.value

\* the addresses of the subsets of an event that have a port of the name
HitAddrs(t, e) ==
    UNION {{JoinHostPort(sub.Addresses[i].IP, SelectPort(t, sub)) :
                i \in 1..Len(sub.Addresses)} :
           sub \in {s \in Range(e.Object.Subsets) : ~NamedMiss(t, s)}}

\* C4: with a named target port, a subset with ports none of which has that
\* name resolves to no addresses and no error, and the Next() call that
\* processes the event returns no Add for an address of such a subset.
C4_NamedPortMiss ==
    [][(pc = "received" /\ pc' = "idle" /\ target.isNamed) =>
            /\ \A sub \in Range(r.ep.Object.Subsets) :
                   NamedMiss(target, sub) =>
                       subsetToAddresses(target, sub) = [addrs |-> <<>>, err |-> NilErr]
            /\ \A u \in BagToSet(ret'.updates) :
                   u.Op = "Add" => u.Addr \in HitAddrs(target, r.ep)]_vars

\* C5: a Next() call that receives an event with a subset without ports
\* returns the no-port error, the context is done when it returns, and the
\* call after it returns the already-stopped error.
C5_NoPortFailure ==
    [][/\ (pc = "received" /\ HasNoPortSubset(r) /\ pc' # pc) =>
              (pc' = "failed" /\ err' = ErrNoPort)
       /\ (pc = "failed" /\ err = ErrNoPort /\ pc' # pc) =>
              (pc' = "idle" /\ ret'.err = ErrNoPort /\ ret'.updates = EmptyBag
                  /\ cancelled')
       /\ (prevErr = ErrNoPort /\ Returns) => ret'.err = ErrAlreadyStopped]_vars

\* with a numeric target port: the call after a no-port failure has returned
C5_Witness ==
    /\ pc = "idle"
    /\ ~target.isNamed /\ target # noTargetPort
    /\ prevErr = ErrNoPort
    /\ ret.err = ErrAlreadyStopped
    /\ cancelled

\* C6: a Next() call that Close() finds blocked in the select returns, what
\* it returns is the cancellation error and no updates, and the context is
\* done from then on.
C6_CancelBlocked ==
    /\ (closedParked /\ pc # "idle") ~>
           (closedParked /\ pc = "idle" /\ ret.err = ErrCanceled
               /\ ret.updates = EmptyBag /\ cancelled)
    /\ [](closedParked => (cancelled /\ (pc = "idle" => ret.err = ErrCanceled)))
    /\ [][cancelled => cancelled']_vars

\* the blocked call has returned the cancellation error
C6_Witness ==
    /\ closedParked
    /\ pc = "idle"
    /\ ret.err = ErrCanceled
    /\ ~startCancelled

\* C7 as stated: once the context is done, no Next() call returns a batch,
\* whether it was running when Close() was called or started later.
C7_NoSuccessAfterClose ==
    [][(cancelled /\ Returns) => ret'.err # NilErr]_vars

\* C7 amended: a Next() call started after Close(), and a Next() call that
\* Close() found blocked in the select, returns an error and no updates.
C7_NoSuccessForLaterOrBlocked ==
    [][((startCancelled \/ closedParked) /\ Returns) =>
            (ret'.err # NilErr /\ ret'.updates = EmptyBag)]_vars

\* a call started after Close(), following a successful call, has failed
C7_Witness ==
    /\ pc = "idle"
    /\ startCancelled
    /\ prevErr = NilErr
    /\ ret.err = ErrAlreadyStopped

\* C8 as stated: once the context is done, lastUpdates never changes.
C8_FrozenAfterCancel ==
    [][cancelled => lastUpdates' = lastUpdates]_vars

\* C8 amended: lastUpdates is never changed by a Next() call started after
\* the context was done, nor by one that Close() found blocked in the select.
C8_FrozenForLaterOrBlocked ==
    [][(lastUpdates' # lastUpdates) => (~startCancelled /\ ~closedParked)]_vars

\* Close() found a call blocked; it has returned and the address set of the
\* earlier success is still there
C8_Witness ==
    /\ cancelled
    /\ closedParked
    /\ pc = "idle"
    /\ prevErr = NilErr
    /\ lastUpdates # {}

\* C9: a Next() call that processes an event with the same address set as
\* the event before it returns an empty batch and nil, and leaves
\* lastUpdates as it was.
C9_IdempotentNoOp ==
    [][(pc = "received" /\ Resolvable(r) /\ pc' # pc
            /\ ResolvedSet(target, r.ep) = lastGood) =>
            (pc' = "idle" /\ ret'.err = NilErr /\ ret'.updates = EmptyBag
                /\ lastUpdates' = lastUpdates)]_vars

\* the second of two successful calls over a non-empty set returned nothing
C9_Witness ==
    /\ pc = "idle"
    /\ prevErr = NilErr
    /\ ret.err = NilErr
    /\ ret.updates = EmptyBag
    /\ Resolvable(r)
    /\ ResolvedSet(target, r.ep) = lastUpdates
    /\ lastUpdates # {}

\* C10: in a returned batch every address has at most one delta.
C10_NoDuplicateAddress ==
    \A u \in BagToSet(ret.updates) :
        /\ CopiesIn(u, ret.updates) = 1
        /\ \A v \in BagToSet(ret.updates) : v.Addr = u.Addr => v = u

\* two subsets of the processed event resolve to the same address, which was
\* added once
C10_Witness ==
    /\ pc = "idle"
    /\ ret.err = NilErr
    /\ Len(r.ep.Object.Subsets) = 2
    /\ \E a \in lastUpdates :
           /\ \A i \in 1..2 : a \in Range(subsetToAddresses(target, r.ep.Object.Subsets[i]).addrs)
           /\ CopiesIn([Op |-> "Add", Addr |-> a, Metadata |-> "struct{}"], ret.updates) = 1

\* C11: while Next() holds an event with a subset that has no port,
\* lastUpdates stays as it was, and the call returns the no-port error and
\* no updates, also when earlier subsets of the event resolved.
C11_NoPartialApplication ==
    [][HasNoPortSubset(r) =>
            /\ lastUpdates' = lastUpdates
            /\ Returns => (ret'.err = ErrNoPort /\ ret'.updates = EmptyBag)]_vars

\* the first subset resolved to an address the watcher does not know, the
\* second has no port: the call failed and the known set is as before
C11_Witness ==
    /\ pc = "idle"
    /\ ret.err = ErrNoPort
    /\ ret.updates = EmptyBag
    /\ Len(r.ep.Object.Subsets) = 2
    /\ Len(r.ep.Object.Subsets[1].Ports) > 0
    /\ Len(r.ep.Object.Subsets[2].Ports) = 0
    /\ \E a \in Range(subsetToAddresses(target, r.ep.Object.Subsets[1]).addrs) :
           a \notin lastUpdates
    /\ lastUpdates # {}

\* C12: a Next() call that receives an error from the event source returns
\* the event-stream error with the cause's message in it and no updates,
\* the context is done when it returns, and lastUpdates is unchanged.
C12_EventStreamError ==
    [][r.err \in StreamCauses =>
            /\ lastUpdates' = lastUpdates
            /\ (pc = "received" /\ pc' # pc) => pc' = "failed"
            /\ Returns => /\ ret'.err = ErrEventStream \o ": " \o r.err
                          /\ ret'.updates = EmptyBag
                          /\ cancelled']_vars

\* a blocked call was handed an error and has returned it wrapped
C12_Witness ==
    /\ pc = "idle"
    /\ r.err = "unauthorized"
    /\ ret.err = "error on reading event stream: unauthorized"
    /\ cancelled
    /\ ~startCancelled
    /\ lastUpdates # {}

\* C13: Close() leaves the context done and lastUpdates as it is, a Close()
\* on a context that is done changes nothing at all, and so does the Close()
\* that Next() calls on its error path.
C13_CloseIdempotent ==
    /\ [](~ENABLED ((Close \/ CloseParked)
                      /\ (\/ ~cancelled'
                          \/ lastUpdates' # lastUpdates
                          \/ (cancelled /\ vars' # vars))))
    /\ [][(pc = "failed" /\ pc' # pc) =>
              (cancelled' /\ lastUpdates' = lastUpdates
                  /\ (cancelled => ret'.err = err))]_vars

\* Close() came while Next() was on its way to the select; Next() saw the
\* context done and called Close() again before it returned
C13_Witness ==
    /\ pc = "idle"
    /\ cancelled
    /\ ret.err = ErrCanceled
    /\ ~startCancelled
    /\ ~closedParked
    /\ lastUpdates # {}

\* C14: when the event source cannot be started, startNewWatcher returns no
\* watcher and the context it made is cancelled before it returns.
C14_FailedStartReleasesContext ==
    pc = "nowatcher" => cancelled

\* the target port is a port number literal
IsNumeric(t) == ~t.isNamed /\ t # noTargetPort

\* the addresses of a subset, each joined with the port p
JoinedWith(sub, p) ==
    [k \in 1..Len(sub.Addresses) |-> JoinHostPort(sub.Addresses[k].IP, p)]

\* C15 as stated: with a port number literal as target port, a subset
\* resolves to its addresses joined with the literal, whatever its port
\* list is: two subsets with the same addresses resolve to the same result.
C15_NumericIgnoresPortList ==
    (pc = "resolved" /\ IsNumeric(target)) =>
        /\ \A i \in 1..2 :
               resolved[i] = [addrs |-> JoinedWith(subs[i], target.value),
                              err |-> NilErr]
        /\ subs[1].Addresses = subs[2].Addresses => resolved[1] = resolved[2]

\* C15 amended: with a port number literal as target port, a subset with a
\* port list that is not empty resolves to its addresses joined with the
\* literal, whatever the entries of the list are, and a subset with an empty
\* port list fails with the no-port error.
C15_NumericIgnoresPortEntries ==
    (pc = "resolved" /\ IsNumeric(target)) =>
        /\ \A i \in 1..2 :
               resolved[i] =
                   IF Len(subs[i].Ports) > 0
                   THEN [addrs |-> JoinedWith(subs[i], target.value), err |-> NilErr]
                   ELSE [addrs |-> <<>>, err |-> ErrNoPort]
        /\ (/\ subs[1].Addresses = subs[2].Addresses
            /\ Len(subs[1].Ports) > 0
            /\ Len(subs[2].Ports) > 0) => resolved[1] = resolved[2]

\* two subsets with the same two addresses and different port lists, neither
\* of them with the literal's number first, resolved to the same addresses
C15_Witness ==
    /\ pc = "resolved"
    /\ IsNumeric(target)
    /\ subs[1].Addresses = subs[2].Addresses
    /\ Len(subs[1].Ports) = 1 /\ Len(subs[2].Ports) = 2
    /\ subs[1].Ports[1].Port # 80 /\ subs[2].Ports[1].Port # 80
    /\ resolved[1] = resolved[2]
    /\ resolved[1].addrs = <<"10.0.0.1:80", "[::1]:80">>

\* C16: with no target port, a Next() call resolves every subset of the
\* event with the first port entry of that subset.
C16_UnsetUsesOwnFirstPort ==
    [][(pc = "received" /\ pc' = "idle" /\ target = noTargetPort) =>
            lastUpdates' =
                UNION {Range(JoinedWith(sub, Itoa(sub.Ports[1].Port))) :
                          sub \in Range(r.ep.Object.Subsets)}]_vars

\* two subsets with the same address and different first ports gave two
\* addresses with different ports
C16_Witness ==
    /\ pc = "idle"
    /\ target = noTargetPort
    /\ ret.err = NilErr
    /\ Len(r.ep.Object.Subsets) = 2
    /\ r.ep.Object.Subsets[1].Addresses = r.ep.Object.Subsets[2].Addresses
    /\ r.ep.Object.Subsets[1].Ports[1].Port = 80
    /\ r.ep.Object.Subsets[2].Ports[1].Port = 9090
    /\ lastUpdates = {"10.0.0.1:80", "10.0.0.1:9090"}

\* the indexes of the port entries of a subset that have the name
Matches(t, sub) == {j \in 1..Len(sub.Ports) : sub.Ports[j].Name = t.value}

\* C17: with a named target port and a subset that has port entries of that
\* name, every address of the subset is joined with the port number of the
\* first of them in list order.
C17_NamedFirstMatch ==
    (pc = "resolved" /\ target.isNamed) =>
        \A i \in 1..2 :
            Matches(target, subs[i]) # {} =>
                LET first == CHOOSE j \in Matches(target, subs[i]) :
                                 \A k \in Matches(target, subs[i]) : j <= k
                IN resolved[i] =
                       [addrs |-> JoinedWith(subs[i], Itoa(subs[i].Ports[first].Port)),
                        err |-> NilErr]

\* a subset with two entries of the name and different numbers resolved
\* with the number of the first
C17_Witness ==
    /\ pc = "resolved"
    /\ target.isNamed
    /\ Matches(target, subs[1]) = {1, 2}
    /\ subs[1].Ports[1].Port = 8080
    /\ subs[1].Ports[2].Port = 9090
    /\ resolved[1].addrs = <<"10.0.0.1:8080", "[::1]:8080">>

\* C18: the set the consumer gets by applying every returned batch, from the
\* empty set on, is lastUpdates; no batch adds an address the consumer holds
\* or deletes one it does not hold.
C18_ConsumerConsistency ==
    /\ [](held = lastUpdates)
    /\ [][(pc = "received" /\ pc' = "idle") =>
              \A u \in BagToSet(ret'.updates) :
                  /\ u.Op = "Add" => u.Addr \notin held
                  /\ u.Op = "Delete" => u.Addr \in held]_vars

\* the second of two batches added one address and deleted another
C18_Witness ==
    /\ pc = "idle"
    /\ prevErr = NilErr
    /\ ret.err = NilErr
    /\ \E u, v \in BagToSet(ret.updates) :
           /\ u.Op = "Add" /\ u.Addr \in held
           /\ v.Op = "Delete" /\ v.Addr \notin held
    /\ Cardinality(held) = 2

\* C19: a Next() call started with the context done returns the
\* already-stopped error and takes nothing from watchChange; any other call
\* takes at most one item, an item leaves the channel only into the running
\* call, and that call goes on to process the item it took.
C19_EventConsumption ==
    [][/\ (pc = "called" /\ cancelled /\ pc' # pc) =>
              (pc' = "idle" /\ ret'.err = ErrAlreadyStopped /\ r' = NoResult)
       /\ startCancelled' => r' = NoResult
       /\ (startCancelled /\ offer # "none") => offer' = offer
       /\ r' # r =>
              \/ r = NoResult /\ pc \in {"entered", "parked"} /\ pc' = "received"
              \/ r' = NoResult /\ pc = "idle" /\ pc' = "called"
       /\ (offer # "none" /\ offer' = "none") =>
              (r = NoResult /\ r' \in Items(offer) /\ pc' = "received")
       /\ (pc = "received" /\ pc' # pc) =>
              (r # NoResult /\ r' = r /\ pc' \in {"idle", "failed"})]_vars

\* a call started with the context done has returned and the item the event
\* source is sending is still waiting
C19_Witness ==
    /\ pc = "idle"
    /\ startCancelled
    /\ ret.err = ErrAlreadyStopped
    /\ r = NoResult
    /\ offer = "event"
====
